---- MODULE Spec2Model ----
(***************************************************************************)
(* Model of the inference request dispatcher of                           *)
(* opencompass/models/openai_api.py: the token estimator, the binary      *)
(* search truncator (bin_trim), the credential rotation and retry loop of *)
(* OpenAI._generate / OpenAISDK._generate, and the thread-pool fan-out of *)
(* OpenAI.generate, and AsyncOpenAI.generate.                             *)
(*                                                                        *)
(* Texts are sequences of one-character strings.  Three character classes *)
(* are told apart, as the regular expressions of the source tell them     *)
(* apart: "a" stands for any character of [A-Za-z0-9], " " for the space  *)
(* that str.split(' ') splits on, "-" for any other non-CJK character and  *)
(* "zh" for any character of [\u4e00-\u9fa5], which both the estimator and *)
(* the CJK test of bin_trim recognise.                                     *)
(*                                                                        *)
(* Inputs are flat strings.  PromptList inputs are left out: their token  *)
(* estimate is taken of str(input), which PromptList.__str__ decides, and *)
(* that class is not part of the sources.  The token estimator is the     *)
(* regular-expression estimator of OpenAIExtra / AsyncOpenAI; the         *)
(* tiktoken estimator of the base class is an external library.           *)
(***************************************************************************)
EXTENDS Integers, Sequences, FiniteSets, TLC

\* ------------------------------------------------------------------ bounds

\* Longest text drawn as the argument of a direct bin_trim call.
MaxTextLen == 7
\* Largest token budget drawn as the argument of a direct bin_trim call.
MaxBudget == 3

\* Largest batch handed to generate().
MaxBatch == 2
\* Longest input text of a single _generate call.
MaxInputLen == 4
\* Largest max_seq_len - 100 configured.
MaxRoom == 3
\* Largest max_out_len requested of generate().
MaxOut == 2
\* Longest text with CJK characters drawn as the argument of bin_trim.
MaxCJKLen == 5
\* Largest configured retry count (self.retry).
MaxRetry == 2
\* Requests one _generate call is followed for; the retry loop itself has no
\* such bound on the paths that `continue`.
MaxSent == 3

\* --------------------------------------------------------------- constants

\* The tokens held out of the context window as prompt buffer.
PromptBuffer == 100
\* The context windows chosen by the model name.
Window32k == 32768
Window16k == 16384
WindowGpt4 == 8192
WindowGpt35 == 4097

VARIABLES
    cls,            \* the class of the dispatcher: "OpenAI" or "OpenAISDK"
    keys,           \* self.keys
    orgs,           \* self.orgs (<<>> when no organization is configured)
    retry,          \* self.retry
    mode,           \* self.mode
    max_seq_len,    \* self.max_seq_len
    path,           \* self.path
    logprobs,       \* self.logprobs
    invalid_keys,   \* self.invalid_keys
    key_ctr,        \* self.key_ctr
    org_ctr,        \* self.org_ctr
    provider,       \* the outcomes requests.post has in this run
    inputs,         \* the batch given to generate()
    max_out_len,    \* the max_out_len given to generate()
    fr,             \* the frame of the _generate call of every input
    gen_pc,         \* where generate() is
    results,        \* the list generate() collects
    gen_exc,        \* the exception generate() raises
    gen_log,        \* what generate() has written to self.logger
    completed,      \* the calls of _generate that have ended, in that order
    call            \* a direct call of bin_trim: its arguments and its value

config == <<cls, keys, orgs, retry, mode, max_seq_len, path, logprobs,
            provider, inputs, max_out_len>>

shared == <<invalid_keys, key_ctr, org_ctr>>

vars == <<cls, keys, orgs, retry, mode, max_seq_len, path, logprobs,
          provider, invalid_keys, key_ctr, org_ctr, inputs, max_out_len, fr,
          gen_pc, results, gen_exc, gen_log, completed, call>>

\* ------------------------------------------------------------------- texts

Chars == {"a", "-", " "}

CJKChars == {"zh"}

IsAlnum(c) == c = "a"

IsCJK(c) == c \in CJKChars

TextsUpTo(n) == UNION {[1..k -> Chars] : k \in 0..n}

\* pattern.search(prompt) with pattern [\u4e00-\u9fa5]
HasCJK(s) == \E i \in 1..Len(s) : IsCJK(s[i])

CJKTextsUpTo(n) ==
    {s \in UNION {[1..k -> Chars \cup CJKChars] : k \in 1..n} : HasCJK(s)}

\* len(re.findall(r'[A-Za-z0-9]+', prompt)): the number of maximal runs of
\* letters and digits, counted by their first characters.
EnglishParts(s) ==
    {i \in 1..Len(s) : IsAlnum(s[i]) /\ (i = 1 \/ ~IsAlnum(s[i - 1]))}

\* sum(len(part) for part in re.findall(r'[\u4e00-\u9FFF]+', prompt)): every
\* CJK character once.
ChineseChars(s) == {i \in 1..Len(s) : IsCJK(s[i])}

\* A run of [A-Za-z0-9]+ holds no whitespace, so len(part.split()) is 1 for
\* every part and english_count is the number of parts.
get_token_len(s) == Cardinality(EnglishParts(s)) + Cardinality(ChineseChars(s))

\* prompt.split(' '): cut at every single space; leading, trailing and doubled
\* spaces leave empty strings, and the empty text gives [''].
RECURSIVE SplitFrom(_, _, _)
SplitFrom(s, i, cur) ==
    IF i > Len(s) THEN <<cur>>
    ELSE IF s[i] = " " THEN <<cur>> \o SplitFrom(s, i + 1, <<>>)
    ELSE SplitFrom(s, i + 1, Append(cur, s[i]))

Split(s) == SplitFrom(s, 1, <<>>)

\* sep.join(ws)
RECURSIVE Join(_, _)
Join(ws, sep) ==
    IF Len(ws) = 0 THEN <<>>
    ELSE IF Len(ws) = 1 THEN ws[1]
    ELSE ws[1] \o sep \o Join(Tail(ws), sep)

\* words[:k]
FirstK(ws, k) == SubSeq(ws, 1, IF k < Len(ws) THEN k ELSE Len(ws))

\* words[-k:] for k >= 1
LastK(ws, k) == SubSeq(ws, IF k < Len(ws) THEN Len(ws) - k + 1 ELSE 1, Len(ws))

FragmentFrontKeepsHead(ws, sep, k, m) ==
    IF m = "mid" THEN Join(FirstK(ws, k), sep) \o Join(LastK(ws, k), sep)
    ELSE Join(FirstK(ws, k), sep)

\* The candidate fragment of bin_trim for a unit count k.
Fragment(ws, sep, k, m) ==
    IF m = "front" THEN Join(LastK(ws, k), sep)
    ELSE IF m = "mid" THEN Join(FirstK(ws, k), sep) \o Join(LastK(ws, k), sep)
    ELSE Join(FirstK(ws, k), sep)

\* The test that moves l up or r down in the binary search.
Fits(frag, num_token) == get_token_len(frag) <= num_token

\* while l + 2 < r: mid = (l + r) // 2; l = mid if the candidate fits, else
\* r = mid.  The value is the pair <<l, r>> the loop ends with.
RECURSIVE SearchInverted(_, _, _, _, _, _)
SearchInverted(ws, sep, num_token, m, l, r) ==
    IF l + 2 < r
    THEN LET mid == (l + r) \div 2
         IN  IF Fits(Fragment(ws, sep, mid, m), num_token)
             THEN SearchInverted(ws, sep, num_token, m, l, mid)
             ELSE SearchInverted(ws, sep, num_token, m, mid, r)
    ELSE <<l, r>>

RECURSIVE Search(_, _, _, _, _, _)
Search(ws, sep, num_token, m, l, r) ==
    IF l + 2 < r
    THEN LET mid == (l + r) \div 2
         IN  IF Fits(Fragment(ws, sep, mid, m), num_token)
             THEN Search(ws, sep, num_token, m, mid, r)
             ELSE Search(ws, sep, num_token, m, l, mid)
    ELSE <<l, r>>

\* The early return with the comparison made strict.
WithinBudgetStrict(prompt, num_token) == get_token_len(prompt) < num_token

\* The early return of bin_trim: the prompt is within the budget.
WithinBudget(prompt, num_token) == get_token_len(prompt) <= num_token

\* The pieces of s cut after the positions of B.
RECURSIVE CutFrom(_, _, _, _)
CutFrom(s, B, i, cur) ==
    IF i > Len(s) THEN <<cur>>
    ELSE IF i \in B THEN <<Append(cur, s[i])>> \o CutFrom(s, B, i + 1, <<>>)
    ELSE CutFrom(s, B, i + 1, Append(cur, s[i]))

\* list(jieba.cut(prompt, cut_all=False)).  The segmenter is a library: all
\* that is taken of it is that it cuts the text into non-empty pieces whose
\* concatenation is the text, so every such cut is a possible value.
Segmentations(s) == {CutFrom(s, B, 1, <<>>) : B \in SUBSET (1..(Len(s) - 1))}

\* The word units of bin_trim and their separator: <<words, sep>>.
WordUnits(prompt) ==
    IF HasCJK(prompt)
    THEN {<<ws, <<>>>> : ws \in Segmentations(prompt)}
    ELSE {<<Split(prompt), <<" ">>>>}

\* What bin_trim returns for given word units: the fragment for the l the
\* search ends with.
Trimmed(words, sep, num_token, m) ==
    Fragment(words, sep, Search(words, sep, num_token, m, 1, Len(words))[1], m)

\* bin_trim(prompt, num_token) under self.mode = m: the set of values it can
\* return (one value for a text without CJK characters).
bin_trim(prompt, num_token, m) ==
    IF WithinBudget(prompt, num_token) THEN {prompt}
    ELSE {Trimmed(u[1], u[2], num_token, m) : u \in WordUnits(prompt)}

\* ------------------------------------------------------------ configuration

Classes == {"OpenAI", "OpenAISDK"}

TrimModes == {"front", "mid", "rear"}

Modes == {"none"} \cup TrimModes

\* A model name is known by the markers _generate looks for in it.
PathMarkers == {"32k", "16k", "gpt-4", "gpt-3.5"}

\* context_window as _generate derives it from self.path.
ContextWindow(p) ==
    IF "32k" \in p THEN Window32k
    ELSE IF "16k" \in p THEN Window16k
    ELSE IF "gpt-4" \in p THEN WindowGpt4
    ELSE IF "gpt-3.5" \in p THEN WindowGpt35
    ELSE Window32k

Min(a, b) == IF a <= b THEN a ELSE b

\* ----------------------------------------------------------------- responses

ErrorCodes ==
    {"rate_limit_exceeded", "insufficient_quota", "invalid_prompt", "other",
     "MISSING"}

ErrorTypes == {"invalid_prompt", "other", "MISSING"}

\* The texts a provider answers with.
Contents == {<<"a">>, <<" ", "-", " ">>}

NoResponse ==
    [kind |-> "none", shape |-> "", code |-> "", type |-> "", content |-> <<>>]

Resp(k, sh, c, t, txt) ==
    [kind |-> k, shape |-> sh, code |-> c, type |-> t, content |-> txt]

\* What one requests.post can end in.  kind: "conn_error" (ConnectionError),
\* "bad_json" (the body is no JSON), "not_dict" (JSON, but no object),
\* "empty" (an object with neither choices nor error), "choices", "error".
\* shape of choices: "text" (the content is a string), "empty_list"
\* (choices is []), "no_field" (the first choice lacks the field read),
\* "null" (the content is null).  code and type of an error object:
\* "MISSING" when the object has no such field.
Responses ==
    {Resp(k, "", "", "", <<>>) : k \in {"conn_error", "bad_json", "not_dict", "empty"}}
    \cup {Resp("choices", "text", "", "", c) : c \in Contents}
    \cup {Resp("choices", sh, "", "", <<>>) : sh \in {"empty_list", "no_field", "null"}}
    \cup {Resp("error", "", c, t, <<>>) : c \in ErrorCodes, t \in ErrorTypes}

\* The error responses that name no rate limit, no exhausted quota and no
\* invalid prompt, by code or by type.
UnrecognisedErrors ==
    {Resp("error", "", c, t, <<>>) : c \in {"other", "MISSING"}, t \in {"other", "MISSING"}}

\* str.strip(): drop the leading and the trailing spaces.
RECURSIVE LStrip(_)
LStrip(s) == IF Len(s) > 0 /\ s[1] = " " THEN LStrip(Tail(s)) ELSE s

RECURSIVE RStrip(_)
RStrip(s) ==
    IF Len(s) > 0 /\ s[Len(s)] = " " THEN RStrip(SubSeq(s, 1, Len(s) - 1)) ELSE s

Strip(s) == RStrip(LStrip(s))

\* ------------------------------------------------------------ return values

NoRet == [kind |-> "none", val |-> <<>>, exc |-> "", n |-> 0]

\* return <a string>
StrRet(v) == [kind |-> "str", val |-> v, exc |-> "", n |-> 0]

\* return response['choices']
ListRet(v) == [kind |-> "list", val |-> v, exc |-> "", n |-> 0]

\* return None
NoneRet == [kind |-> "None", val |-> <<>>, exc |-> "", n |-> 0]

\* raise e; n is the retry count a RuntimeError reports.
Raise(e, k) == [kind |-> "exc", val |-> <<>>, exc |-> e, n |-> k]

AllKeysError == "RuntimeError: All keys have insufficient quota."

RetryError == "RuntimeError: Calling OpenAI failed after retrying"

\* ----------------------------------------------------------------- frames

NoRequest == [key |-> "", org |-> "", max_tokens |-> 0, messages |-> <<>>]

\* The frame of _generate(inputs[i], max_out_len, temperature) before the
\* pool runs it.
Frame(inp, mol) ==
    [pc |-> "queued", arg |-> inp, input |-> inp, context_window |-> 0,
     max_out_len |-> mol,
     messages |-> <<>>, max_num_retries |-> 0, ctr |-> 0, key |-> "",
     org |-> "", known_invalid |-> {}, picks |-> <<>>, trims |-> 0,
     waits |-> 0, sent |-> 0,
     request |-> NoRequest,
     response |-> NoResponse, ret |-> NoRet]

Tasks == 1..Len(inputs)

NoCall ==
    [pc |-> "none", prompt |-> <<>>, num_token |-> 0, words |-> <<>>,
     sep |-> <<>>, l |-> 0, r |-> 0, out |-> <<>>]

\* ------------------------------------------------- classifying a response

Act(a, r) == [act |-> a, ret |-> r]

\* The error branch of the except KeyError handler: the code is read first,
\* the type only when the code is none of the three it knows.
ErrorOutcome(resp) ==
    IF resp.code = "MISSING" THEN Act("raise", Raise("KeyError", 0))
    ELSE IF resp.code = "rate_limit_exceeded" THEN Act("continue", NoRet)
    ELSE IF resp.code = "insufficient_quota" THEN Act("quota", NoRet)
    ELSE IF resp.code = "invalid_prompt" THEN Act("return", StrRet(<<>>))
    ELSE IF resp.type = "MISSING" THEN Act("raise", Raise("KeyError", 0))
    ELSE IF resp.type = "invalid_prompt" THEN Act("return", StrRet(<<>>))
    ELSE Act("count", NoRet)

\* A connection error or an unparseable body counted as a failed attempt.
OutcomeCountingTransport(resp, lp) ==
    IF resp.kind \in {"conn_error", "bad_json"} THEN Act("count", NoRet)
    ELSE IF resp.kind = "not_dict" THEN Act("raise", Raise("TypeError", 0))
    ELSE IF resp.kind = "choices" THEN
        IF lp THEN Act("return", ListRet(resp.content))
        ELSE IF resp.shape = "text" THEN Act("return", StrRet(Strip(resp.content)))
        ELSE IF resp.shape = "empty_list" THEN Act("raise", Raise("IndexError", 0))
        ELSE IF resp.shape = "null" THEN Act("raise", Raise("AttributeError", 0))
        ELSE Act("count", NoRet)
    ELSE IF resp.kind = "error" THEN ErrorOutcome(resp)
    ELSE Act("count", NoRet)

\* What _generate does with the outcome of requests.post: "continue" (next
\* attempt, counter unchanged), "count" (max_num_retries += 1), "quota" (the
\* key is added to the invalid set, then continue), "return", "raise".
\* content stands for message.content of a chat model and text of a legacy one.
Outcome(resp, lp) ==
    IF resp.kind \in {"conn_error", "bad_json"} THEN Act("continue", NoRet)
    ELSE IF resp.kind = "not_dict" THEN Act("raise", Raise("TypeError", 0))
    ELSE IF resp.kind = "choices" THEN
        IF lp THEN Act("return", ListRet(resp.content))
        ELSE IF resp.shape = "text" THEN Act("return", StrRet(Strip(resp.content)))
        ELSE IF resp.shape = "empty_list" THEN Act("raise", Raise("IndexError", 0))
        ELSE IF resp.shape = "null" THEN Act("raise", Raise("AttributeError", 0))
        ELSE Act("count", NoRet)
    ELSE IF resp.kind = "error" THEN ErrorOutcome(resp)
    ELSE Act("count", NoRet)

\* ---------------------------------------------------------------- _generate

\* The record of the order in which the workers end: call i is entered when
\* this step ends it.
Completes(i) ==
    completed' = IF fr'[i].pc = "done" THEN Append(completed, i) ELSE completed

CeilingOneShort(mol, cw, inp) ==
    Min(mol, cw - get_token_len(inp) - PromptBuffer - 1)

\* max_out_len = min(max_out_len, context_window - get_token_len(str(input)) - 100)
Ceiling(mol, cw, inp) == Min(mol, cw - get_token_len(inp) - PromptBuffer)

\* The number of calls of self.bin_trim the truncation step makes.
TrimCalls == IF mode # "none" THEN 1 ELSE 0

\* The values of input after the truncation step, with the context window.
TrimStep(inp) ==
    IF mode # "none"
    THEN {<<t, max_seq_len>> :
            t \in bin_trim(inp, max_seq_len - PromptBuffer - max_out_len, mode)}
    ELSE {<<inp, ContextWindow(path)>>}

\* The single turn given the role of the model's side.
MessagesAsAssistant(inp) == <<[role |-> "assistant", content |-> inp]>>

\* messages for a flat string
Messages(inp) == <<[role |-> "user", content |-> inp]>>

\* OpenAI._generate up to the retry loop: context window, truncation,
\* messages, output ceiling, and the early return of '' when it is <= 0.
Prepare(i) ==
    /\ i \in Tasks
    /\ cls = "OpenAI"
    /\ fr[i].pc = "queued"
    /\ gen_pc = "running"
    /\ \E tc \in TrimStep(fr[i].input) :
         LET mol == Ceiling(fr[i].max_out_len, tc[2], tc[1])
         IN  fr' = [fr EXCEPT ![i].input = tc[1],
                              ![i].trims = TrimCalls,
                              ![i].context_window = tc[2],
                              ![i].messages = Messages(tc[1]),
                              ![i].max_out_len = mol,
                              ![i].pc = IF mol <= 0 THEN "done" ELSE "loop",
                              ![i].ret = IF mol <= 0 THEN StrRet(<<>>) ELSE NoRet]
    /\ UNCHANGED <<config, shared, gen_pc, results, gen_exc, gen_log, call>>
    /\ Completes(i)

\* OpenAISDK._generate up to the retry loop: the ceiling is not computed.
PrepareSDK(i) ==
    /\ i \in Tasks
    /\ cls = "OpenAISDK"
    /\ fr[i].pc = "queued"
    /\ gen_pc = "running"
    /\ \E tc \in TrimStep(fr[i].input) :
         fr' = [fr EXCEPT ![i].input = tc[1],
                          ![i].trims = TrimCalls,
                          ![i].context_window = tc[2],
                          ![i].messages = Messages(tc[1]),
                          ![i].pc = "loop"]
    /\ UNCHANGED <<config, shared, gen_pc, results, gen_exc, gen_log, call>>
    /\ Completes(i)

\* The retry count the final RuntimeError reports.
Reported(i) == IF cls = "OpenAI" THEN fr[i].max_num_retries ELSE retry

\* The loop test of the retry loop.
MayRetry(i) == fr[i].max_num_retries < retry

\* The loop entered without the call of self.wait().
LoopHeadNoWait(i) ==
    /\ i \in Tasks
    /\ fr[i].pc = "loop"
    /\ IF MayRetry(i)
       THEN fr' = [fr EXCEPT ![i].response = NoResponse,
                             ![i].pc = IF cls = "OpenAI" THEN "check" ELSE "create"]
       ELSE fr' = [fr EXCEPT ![i].pc = "done",
                             ![i].response = NoResponse,
                             ![i].ret = Raise(RetryError, Reported(i))]
    /\ UNCHANGED <<config, shared, gen_pc, results, gen_exc, gen_log, call>>
    /\ Completes(i)

\* while max_num_retries < self.retry: self.wait(); after the loop the
\* RuntimeError.
LoopHead(i) ==
    /\ i \in Tasks
    /\ fr[i].pc = "loop"
    /\ IF MayRetry(i)
       THEN fr' = [fr EXCEPT ![i].waits = @ + 1,
                             ![i].response = NoResponse,
                             ![i].pc = IF cls = "OpenAI" THEN "check" ELSE "create"]
       ELSE fr' = [fr EXCEPT ![i].pc = "done",
                             ![i].response = NoResponse,
                             ![i].ret = Raise(RetryError, Reported(i))]
    /\ UNCHANGED <<config, shared, gen_pc, results, gen_exc, gen_log, call>>
    /\ Completes(i)

\* The all-invalid test true only when the set is larger than the list.
AllInvalidStrict == Cardinality(invalid_keys) > Len(keys)

\* if len(self.invalid_keys) == len(self.keys).  known_invalid keeps, for
\* the record, the keys that were invalid when this selection began.
AllInvalid == Cardinality(invalid_keys) = Len(keys)

CheckAllInvalid(i) ==
    /\ i \in Tasks
    /\ fr[i].pc = "check"
    /\ IF AllInvalid
       THEN fr' = [fr EXCEPT ![i].pc = "done", ![i].ret = Raise(AllKeysError, 0)]
       ELSE fr' = [fr EXCEPT ![i].pc = "inc_load",
                             ![i].known_invalid = invalid_keys]
    /\ UNCHANGED <<config, shared, gen_pc, results, gen_exc, gen_log, call>>
    /\ Completes(i)

\* self.key_ctr += 1 is a load and a store; Lock() makes a new lock every
\* time, so nothing keeps another thread from running between the two.
IncLoad(i) ==
    /\ i \in Tasks
    /\ fr[i].pc = "inc_load"
    /\ fr' = [fr EXCEPT ![i].ctr = key_ctr, ![i].pc = "inc_store"]
    /\ UNCHANGED <<config, shared, gen_pc, results, gen_exc, gen_log, call>>
    /\ Completes(i)

IncStore(i) ==
    /\ i \in Tasks
    /\ fr[i].pc = "inc_store"
    /\ key_ctr' = fr[i].ctr + 1
    /\ fr' = [fr EXCEPT ![i].pc = "wrap"]
    /\ UNCHANGED <<config, invalid_keys, org_ctr, gen_pc, results, gen_exc, gen_log, call>>
    /\ Completes(i)

\* if self.key_ctr == len(self.keys)
Wrap(i) ==
    /\ i \in Tasks
    /\ fr[i].pc = "wrap"
    /\ fr' = [fr EXCEPT ![i].pc = IF key_ctr = Len(keys) THEN "wrap_store" ELSE "test"]
    /\ UNCHANGED <<config, shared, gen_pc, results, gen_exc, gen_log, call>>
    /\ Completes(i)

\* The cursor set back to the second position instead of the first.
WrapStoreToOne(i) ==
    /\ i \in Tasks
    /\ fr[i].pc = "wrap_store"
    /\ key_ctr' = 1
    /\ fr' = [fr EXCEPT ![i].pc = "test"]
    /\ UNCHANGED <<config, invalid_keys, org_ctr, gen_pc, results, gen_exc, gen_log, call>>
    /\ Completes(i)

\* self.key_ctr = 0
WrapStore(i) ==
    /\ i \in Tasks
    /\ fr[i].pc = "wrap_store"
    /\ key_ctr' = 0
    /\ fr' = [fr EXCEPT ![i].pc = "test"]
    /\ UNCHANGED <<config, invalid_keys, org_ctr, gen_pc, results, gen_exc, gen_log, call>>
    /\ Completes(i)

\* seq[c] of a Python list: c is an index of it.
InRange(c, seq) == c >= 0 /\ c < Len(seq)

\* if self.keys[self.key_ctr] not in self.invalid_keys: break
KeyIsValid(k) == k \notin invalid_keys

ScanTest(i) ==
    /\ i \in Tasks
    /\ fr[i].pc = "test"
    /\ IF ~InRange(key_ctr, keys)
       THEN fr' = [fr EXCEPT ![i].pc = "done", ![i].ret = Raise("IndexError", 0)]
       ELSE fr' = [fr EXCEPT ![i].pc = IF KeyIsValid(keys[key_ctr + 1])
                                       THEN "key_read" ELSE "inc_load"]
    /\ UNCHANGED <<config, shared, gen_pc, results, gen_exc, gen_log, call>>
    /\ Completes(i)

\* key = self.keys[self.key_ctr].  picks keeps, for the record, the cursor
\* positions this call has read its keys at.
KeyRead(i) ==
    /\ i \in Tasks
    /\ fr[i].pc = "key_read"
    /\ IF ~InRange(key_ctr, keys)
       THEN fr' = [fr EXCEPT ![i].pc = "done", ![i].ret = Raise("IndexError", 0)]
       ELSE fr' = [fr EXCEPT ![i].key = keys[key_ctr + 1],
                             ![i].picks = Append(@, key_ctr),
                             ![i].org = "",
                             ![i].pc = IF Len(orgs) > 0 THEN "org_load" ELSE "send"]
    /\ UNCHANGED <<config, shared, gen_pc, results, gen_exc, gen_log, call>>
    /\ Completes(i)

\* self.org_ctr += 1, a load and a store as for the key cursor
OrgLoad(i) ==
    /\ i \in Tasks
    /\ fr[i].pc = "org_load"
    /\ fr' = [fr EXCEPT ![i].ctr = org_ctr, ![i].pc = "org_store"]
    /\ UNCHANGED <<config, shared, gen_pc, results, gen_exc, gen_log, call>>
    /\ Completes(i)

OrgStore(i) ==
    /\ i \in Tasks
    /\ fr[i].pc = "org_store"
    /\ org_ctr' = fr[i].ctr + 1
    /\ fr' = [fr EXCEPT ![i].pc = "org_wrap"]
    /\ UNCHANGED <<config, invalid_keys, key_ctr, gen_pc, results, gen_exc, gen_log, call>>
    /\ Completes(i)

\* if self.org_ctr == len(self.orgs): self.org_ctr = 0
OrgWrap(i) ==
    /\ i \in Tasks
    /\ fr[i].pc = "org_wrap"
    /\ org_ctr' = IF org_ctr = Len(orgs) THEN 0 ELSE org_ctr
    /\ fr' = [fr EXCEPT ![i].pc = "org_header"]
    /\ UNCHANGED <<config, invalid_keys, key_ctr, gen_pc, results, gen_exc, gen_log, call>>
    /\ Completes(i)

\* header['OpenAI-Organization'] = self.orgs[self.org_ctr]
OrgHeader(i) ==
    /\ i \in Tasks
    /\ fr[i].pc = "org_header"
    /\ IF ~InRange(org_ctr, orgs)
       THEN fr' = [fr EXCEPT ![i].pc = "done", ![i].ret = Raise("IndexError", 0)]
       ELSE fr' = [fr EXCEPT ![i].org = orgs[org_ctr + 1], ![i].pc = "send"]
    /\ UNCHANGED <<config, shared, gen_pc, results, gen_exc, gen_log, call>>
    /\ Completes(i)

\* The request of one attempt: the header's key and organization, and the
\* max_tokens and messages of the payload.
Request(i) ==
    [key |-> fr[i].key, org |-> fr[i].org, max_tokens |-> fr[i].max_out_len,
     messages |-> fr[i].messages]

\* requests.post and everything _generate does with its outcome, up to the
\* return, the raise, or the next turn of the loop.
Send(i) ==
    /\ i \in Tasks
    /\ fr[i].pc = "send"
    /\ fr[i].sent < MaxSent
    /\ \E resp \in provider :
         LET o == Outcome(resp, logprobs)
             ends == o.act \in {"return", "raise"}
         IN  /\ fr' = [fr EXCEPT ![i].sent = @ + 1,
                                 ![i].request = Request(i),
                                 ![i].response = resp,
                                 ![i].max_num_retries =
                                     IF o.act = "count" THEN @ + 1 ELSE @,
                                 ![i].pc = IF ends THEN "done" ELSE "loop",
                                 ![i].ret = IF ends THEN o.ret ELSE @]
             /\ invalid_keys' = IF o.act = "quota"
                                THEN invalid_keys \cup {fr[i].key}
                                ELSE invalid_keys
    /\ UNCHANGED <<config, key_ctr, org_ctr, gen_pc, results, gen_exc, gen_log, call>>
    /\ Completes(i)

\* What openai_client.chat.completions.create can end in for OpenAISDK: a
\* first choice whose content is a text or None, or any exception.
SDKResponses ==
    {Resp("choices", "text", "", "", c) : c \in Contents}
    \cup {Resp("choices", "null", "", "", <<>>), Resp("exception", "", "", "", <<>>)}

\* OpenAISDK._generate: return responses.choices[0].message.content; except
\* Exception: log; num_retries += 1.
Create(i) ==
    /\ i \in Tasks
    /\ fr[i].pc = "create"
    /\ fr[i].sent < MaxSent
    /\ \E resp \in SDKResponses :
         fr' = [fr EXCEPT ![i].sent = @ + 1,
                          ![i].request = Request(i),
                          ![i].response = resp,
                          ![i].max_num_retries =
                              IF resp.kind = "exception" THEN @ + 1 ELSE @,
                          ![i].pc = IF resp.kind = "exception" THEN "loop" ELSE "done",
                          ![i].ret = IF resp.kind = "exception" THEN @
                                     ELSE IF resp.shape = "null" THEN NoneRet
                                     ELSE StrRet(resp.content)]
    /\ UNCHANGED <<config, shared, gen_pc, results, gen_exc, gen_log, call>>
    /\ Completes(i)

\* ----------------------------------------------------------------- generate

\* The results taken as the workers end (as_completed) instead.
CollectableAsCompleted(n) == fr[n].pc = "done"

\* executor.map hands the results out in the order of the inputs: the next
\* one taken is the one after those already in the list.
Collectable(n) == n = Len(results) + 1 /\ fr[n].pc = "done"

CollectPlaceholder(n) ==
    /\ n \in Tasks
    /\ gen_pc = "running"
    /\ Collectable(n)
    /\ results' = Append(results, IF fr[n].ret.kind = "exc" THEN StrRet(<<>>)
                                  ELSE fr[n].ret)
    /\ fr' = [fr EXCEPT ![n].pc = "joined"]
    /\ UNCHANGED <<config, shared, gen_pc, gen_exc, gen_log, completed, call>>

\* list(executor.map(...)) takes the value of the next future; the exception
\* of a future is raised again in generate(), and the futures not yet started
\* are cancelled.
Collect(n) ==
    /\ n \in Tasks
    /\ gen_pc = "running"
    /\ Collectable(n)
    /\ IF fr[n].ret.kind = "exc"
       THEN /\ gen_pc' = "raising"
            /\ gen_exc' = fr[n].ret.exc
            /\ results' = results
            /\ fr' = [j \in Tasks |->
                        IF fr[j].pc = "queued" THEN [fr[j] EXCEPT !.pc = "cancelled"]
                        ELSE IF j = n THEN [fr[j] EXCEPT !.pc = "joined"]
                        ELSE fr[j]]
       ELSE /\ results' = Append(results, fr[n].ret)
            /\ fr' = [fr EXCEPT ![n].pc = "joined"]
            /\ UNCHANGED <<gen_pc, gen_exc>>
    /\ UNCHANGED <<config, shared, gen_log, completed, call>>

Finished(j) == fr[j].pc \in {"done", "joined", "cancelled"}

\* return results, once the list holds a result for every input
Return ==
    /\ gen_pc = "running"
    /\ Len(results) = Len(inputs)
    /\ gen_pc' = "returned"
    /\ UNCHANGED <<config, shared, fr, results, gen_exc, gen_log, completed, call>>

\* Leaving the with block waits for the running workers; then the exception
\* reaches the caller of generate().
Propagate ==
    /\ gen_pc = "raising"
    /\ \A j \in Tasks : Finished(j)
    /\ gen_pc' = "raised"
    /\ UNCHANGED <<config, shared, fr, results, gen_exc, gen_log, completed, call>>

\* One record of self.logger.
Logged(level, msg) == [level |-> level, msg |-> msg]

EmptyInputMessage == "Got empty input list in generate()"

\* AsyncOpenAI.generate.  An empty batch is logged as an error and answered
\* with the empty list.  For any other batch the envelopes are built, the two
\* info lines are logged and asyncio.run(...) is evaluated: the module does
\* not import asyncio, so the lookup of the name raises NameError before
\* OpenAIClientUtil is called.  No call of _generate is made: the frames stay
\* queued.
AsyncGenerate ==
    /\ cls = "AsyncOpenAI"
    /\ gen_pc = "called"
    /\ IF Len(inputs) = 0
       THEN /\ gen_log' = Append(gen_log, Logged("error", EmptyInputMessage))
            /\ gen_pc' = "returned"
            /\ gen_exc' = gen_exc
       ELSE /\ gen_log' = gen_log \o <<Logged("info", ">>infer_config"),
                                       Logged("info", ">>len of inputs_batch")>>
            /\ gen_pc' = "raised"
            /\ gen_exc' = "NameError"
    /\ results' = <<>>
    /\ UNCHANGED <<config, shared, fr, completed, call>>

\* ------------------------------------------------------------ specifications

\* The calls a batch can hold.
TaskIds == 1..MaxBatch

Next ==
    \/ \E i \in TaskIds : Prepare(i)
    \/ \E i \in TaskIds : PrepareSDK(i)
    \/ \E i \in TaskIds : LoopHead(i)
    \/ \E i \in TaskIds : CheckAllInvalid(i)
    \/ \E i \in TaskIds : IncLoad(i)
    \/ \E i \in TaskIds : IncStore(i)
    \/ \E i \in TaskIds : Wrap(i)
    \/ \E i \in TaskIds : WrapStore(i)
    \/ \E i \in TaskIds : ScanTest(i)
    \/ \E i \in TaskIds : KeyRead(i)
    \/ \E i \in TaskIds : OrgLoad(i)
    \/ \E i \in TaskIds : OrgStore(i)
    \/ \E i \in TaskIds : OrgWrap(i)
    \/ \E i \in TaskIds : OrgHeader(i)
    \/ \E i \in TaskIds : Send(i)
    \/ \E i \in TaskIds : Create(i)
    \/ \E n \in TaskIds : Collect(n)
    \/ Return
    \/ Propagate
    \/ AsyncGenerate

\* The state after __init__: the cursors at 0, no key invalid.
Object(c, ks, os, r, m, msl, p, lp, pv, ins, mol) ==
    /\ cls = c
    /\ keys = ks
    /\ orgs = os
    /\ retry = r
    /\ mode = m
    /\ max_seq_len = msl
    /\ path = p
    /\ logprobs = lp
    /\ provider = pv
    /\ invalid_keys = {}
    /\ key_ctr = 0
    /\ org_ctr = 0
    /\ inputs = ins
    /\ max_out_len = mol
    /\ fr = [i \in 1..Len(ins) |-> Frame(ins[i], mol)]
    /\ results = <<>>
    /\ gen_exc = ""
    /\ gen_log = <<>>
    /\ completed = <<>>

\* The object and a call of generate(ins, mol) that has submitted every
\* input's _generate to the pool.
Constructed(c, ks, os, r, m, msl, p, lp, pv, ins, mol) ==
    /\ Object(c, ks, os, r, m, msl, p, lp, pv, ins, mol)
    /\ gen_pc = "running"
    /\ call = NoCall

\* Key lists of one or two keys; the same key may be listed twice.
KeyLists == {<<"k1">>, <<"k1", "k2">>, <<"k1", "k1">>}

OrgLists == {<<>>, <<"o1", "o2">>}

\* The i-th input of a batch: i words, so that the inputs of a batch differ.
BatchText(i) == [j \in 1..(2 * i - 1) |-> IF j % 2 = 1 THEN "a" ELSE " "]

Batch(k) == [i \in 1..k |-> BatchText(i)]

Quota == Resp("error", "", "insufficient_quota", "other", <<>>)

\* Batches of up to MaxBatch inputs whose requests are all answered, with a
\* text or with an object that holds neither choices nor an error.
InitOrder ==
    \E k \in 0..MaxBatch :
        Constructed("OpenAI", <<"k1">>, <<>>, 1, "none", 4096, {"gpt-3.5"}, FALSE,
                    {Resp("choices", "text", "", "", c) : c \in Contents}
                        \cup {Resp("empty", "", "", "", <<>>),
                              Resp("error", "", "invalid_prompt", "other", <<>>)},
                    Batch(k), 1)

\* Two concurrent calls on every key list and organization list, with quota
\* errors.
InitRace ==
    \E ks \in KeyLists, os \in OrgLists :
        Constructed("OpenAI", ks, os, 1, "none", 4096, {"gpt-3.5"}, FALSE,
                    {Quota, Resp("choices", "text", "", "", <<"a">>)},
                    Batch(2), 1)

\* One call of OpenAI._generate: every key list, organization list, retry
\* count and log-probability setting, against every outcome of a request.
InitRetry ==
    \E ks \in KeyLists, os \in OrgLists, r \in 0..MaxRetry, lp \in BOOLEAN,
       pv \in {Responses, UnrecognisedErrors} :
        Constructed("OpenAI", ks, os, r, "none", 4096, {"gpt-3.5"}, lp,
                    pv, Batch(1), 1)

SeqLens == (PromptBuffer - 1)..(PromptBuffer + MaxRoom)

Paths == {{}, {"gpt-3.5"}, {"gpt-4"}, {"gpt-3.5", "16k"}, {"gpt-4", "32k"}}

\* One call of _generate of either class: every input text, truncation mode,
\* max_seq_len, model name and requested max_out_len.
InitCeiling ==
    \E c \in Classes, t \in TextsUpTo(MaxInputLen) \cup CJKTextsUpTo(2),
       m \in Modes, msl \in SeqLens, p \in Paths, mol \in 0..MaxOut :
        /\ m = "none" \/ p = {"gpt-3.5"}
        /\ m # "none" \/ msl = PromptBuffer
        /\ Constructed(c, <<"k1">>, <<>>, 1, m, msl, p, FALSE,
                       {Resp("choices", "text", "", "", <<"a">>)}, <<t>>, mol)

\* One call of OpenAISDK._generate for every retry count.
InitSDK ==
    \E r \in 0..MaxRetry :
        Constructed("OpenAISDK", <<"k1">>, <<>>, r, "none", 4096, {"gpt-3.5"},
                    FALSE, {}, Batch(1), 1)

\* Key lists of up to three keys.
RotateKeyLists == KeyLists \cup {<<"k1", "k2", "k3">>, <<"k1", "k1", "k2">>}

KeySet(ks) == {ks[j] : j \in 1..Len(ks)}

\* Outcomes after which the loop selects a key again, and a text.
Transient ==
    {Resp("conn_error", "", "", "", <<>>), Quota,
     Resp("choices", "text", "", "", <<"a">>)}

\* One call of OpenAI._generate on a dispatcher that has served earlier
\* calls: the cursors rest on any position and any of the keys have been
\* marked invalid by earlier quota errors.
InitRotate ==
    \E ks \in RotateKeyLists, os \in OrgLists, kc \in 0..2, oc \in 0..1,
       inv \in SUBSET {"k1", "k2", "k3"} :
        /\ kc < Len(ks)
        /\ oc = 0 \/ oc < Len(os)
        /\ inv \subseteq KeySet(ks)
        /\ cls = "OpenAI"
        /\ keys = ks
        /\ orgs = os
        /\ retry = 1
        /\ mode = "none"
        /\ max_seq_len = 4096
        /\ path = {"gpt-3.5"}
        /\ logprobs = FALSE
        /\ provider = Transient
        /\ invalid_keys = inv
        /\ key_ctr = kc
        /\ org_ctr = oc
        /\ inputs = Batch(1)
        /\ max_out_len = 1
        /\ fr = [i \in 1..1 |-> Frame(BatchText(i), 1)]
        /\ results = <<>>
        /\ gen_exc = ""
        /\ gen_log = <<>>
        /\ completed = <<>>
        /\ gen_pc = "running"
        /\ call = NoCall

\* A call of AsyncOpenAI.generate on a batch of up to MaxBatch inputs.
InitAsync ==
    \E k \in 0..MaxBatch :
        /\ Object("AsyncOpenAI", <<"k1">>, <<>>, 1, "none", 4096, {"gpt-3.5"},
                  FALSE, {}, Batch(k), 1)
        /\ gen_pc = "called"
        /\ call = NoCall

Init ==
    \/ InitOrder
    \/ InitRace
    \/ InitRetry
    \/ InitCeiling
    \/ InitSDK
    \/ InitRotate
    \/ InitAsync

Spec == Init /\ [][Next]_vars

\* The steps of the worker thread that runs the call i.
WorkerStep(i) ==
    \/ Prepare(i)
    \/ PrepareSDK(i)
    \/ LoopHead(i)
    \/ CheckAllInvalid(i)
    \/ IncLoad(i)
    \/ IncStore(i)
    \/ Wrap(i)
    \/ WrapStore(i)
    \/ ScanTest(i)
    \/ KeyRead(i)
    \/ OrgLoad(i)
    \/ OrgStore(i)
    \/ OrgWrap(i)
    \/ OrgHeader(i)
    \/ Send(i)
    \/ Create(i)

\* The threads of the pool are scheduled by the operating system: a worker
\* that can take a step is not held back forever.
Fairness == \A i \in TaskIds : WF_vars(WorkerStep(i))

SpecFair == Init /\ [][Next]_vars /\ Fairness

\* ------------------------------------------------------- direct bin_trim calls

\* self.bin_trim(prompt, num_token) returns one of its values.
BinTrimCall ==
    /\ call.pc = "called"
    /\ \/ /\ WithinBudget(call.prompt, call.num_token)
          /\ call' = [call EXCEPT !.out = call.prompt, !.pc = "returned"]
       \/ /\ ~WithinBudget(call.prompt, call.num_token)
          /\ \E u \in WordUnits(call.prompt) :
               LET lr == Search(u[1], u[2], call.num_token, mode, 1, Len(u[1]))
               IN  call' = [call EXCEPT !.words = u[1], !.sep = u[2],
                                        !.l = lr[1], !.r = lr[2],
                                        !.out = Fragment(u[1], u[2], lr[1], mode),
                                        !.pc = "returned"]
    /\ UNCHANGED <<config, shared, fr, gen_pc, results, gen_exc, gen_log, completed>>

Budgets == (0 - 1)..MaxBudget

\* A call of bin_trim on an object of every truncation mode, for every text
\* and every budget.
InitTrim ==
    \E m \in TrimModes, t \in TextsUpTo(MaxTextLen) \cup CJKTextsUpTo(MaxCJKLen),
       b \in Budgets :
        /\ Object("OpenAI", <<"k1">>, <<>>, 1, m, 4096, {"gpt-3.5"}, FALSE, {}, <<>>, 1)
        /\ gen_pc = "idle"
        /\ call = [NoCall EXCEPT !.pc = "called", !.prompt = t, !.num_token = b]

NextTrim == BinTrimCall

SpecTrim == InitTrim /\ [][NextTrim]_vars

\* ------------------------------------------------------------------ claims

Ended(i) == fr[i].pc \in {"done", "joined"}

\* C1: when OpenAI.generate() returns, the list holds exactly one result per input
\* and the i-th result is what _generate returned for the i-th input, in
\* whatever order the workers ended; generate() raises only the exception of
\* a worker.
C1_ResultsInInputOrder ==
    cls \in Classes =>
        /\ gen_pc = "returned" =>
               /\ Len(results) = Len(inputs)
               /\ \A i \in Tasks :
                      /\ fr[i].arg = inputs[i]
                      /\ fr[i].ret.kind # "exc"
                      /\ results[i] = fr[i].ret
        /\ gen_pc \in {"raising", "raised"} =>
               \E i \in Tasks : fr[i].ret.kind = "exc" /\ fr[i].ret.exc = gen_exc

\* C1 witness: the second input's call ended before the first one's, the two
\* results differ, and generate() has returned them in input order.
C1_Witness ==
    /\ cls = "OpenAI"
    /\ gen_pc = "returned"
    /\ Len(inputs) = 2
    /\ completed = <<2, 1>>
    /\ results[1] # results[2]
    /\ results = <<fr[1].ret, fr[2].ret>>

\* C2: no call of _generate sends more requests than the configured retry
\* count.
C2_AtMostRetryRequests == \A i \in Tasks : fr[i].sent <= retry

\* C3: a call of OpenAI._generate whose every request is answered with an
\* unrecognised error response ends, after exactly retry requests, with the
\* 'failed after retrying' RuntimeError that reports retry.
C3_UnrecognisedErrorsExhaustRetries ==
    \A i \in Tasks :
        (cls = "OpenAI" /\ provider = UnrecognisedErrors /\ Ended(i)) =>
            /\ fr[i].sent = retry
            /\ fr[i].ret = Raise(RetryError, retry)

EveryKeyInvalid == \A j \in 1..Len(keys) : keys[j] \in invalid_keys

\* C4: an attempt that finds every configured key invalid when it begins its
\* credential selection raises 'All keys have insufficient quota' and sends
\* no request.
C4_AllInvalidRaises ==
    [][\A i \in Tasks :
          (fr[i].pc = "check" /\ EveryKeyInvalid /\ fr'[i].pc # "check") =>
              /\ fr'[i].ret = Raise(AllKeysError, 0)
              /\ fr'[i].sent = fr[i].sent]_vars

\* C5: a credential selection never returns a key that was in the invalid
\* set before that selection began.
C5_InvalidKeyNeverSelected ==
    [][\A i \in Tasks :
          (fr[i].pc = "key_read" /\ fr'[i].pc \notin {"key_read", "done"}) =>
              fr'[i].key \notin fr[i].known_invalid]_vars

\* C6: a call of OpenAI._generate ends with a text or a choice list (the
\* empty string among the texts), or with one of the two terminal
\* RuntimeErrors; no other exception leaves it.
C6_FourOutcomes ==
    \A i \in Tasks :
        (cls = "OpenAI" /\ Ended(i)) =>
            \/ fr[i].ret.kind \in {"str", "list"}
            \/ fr[i].ret.kind = "exc" /\ fr[i].ret.exc \in {AllKeysError, RetryError}

\* A response that carries an invalid-prompt error by its code, or by its
\* type when its code names neither a rate limit nor an exhausted quota.
InvalidPromptError(resp) ==
    /\ resp.kind = "error"
    /\ \/ resp.code = "invalid_prompt"
       \/ /\ resp.type = "invalid_prompt"
          /\ resp.code \notin {"rate_limit_exceeded", "insufficient_quota"}

\* C7: the step that receives an invalid-prompt error ends the call with the
\* empty string, leaves max_num_retries and the invalid-key set as they were,
\* and the call sends nothing afterwards.
C7_InvalidPromptReturnsEmpty ==
    [][\A i \in Tasks :
          /\ (fr'[i].sent = fr[i].sent + 1 /\ InvalidPromptError(fr'[i].response)) =>
                 /\ fr'[i].pc = "done"
                 /\ fr'[i].ret = StrRet(<<>>)
                 /\ fr'[i].max_num_retries = fr[i].max_num_retries
                 /\ invalid_keys' = invalid_keys
          /\ (Ended(i) /\ InvalidPromptError(fr[i].response)) =>
                 fr'[i].sent = fr[i].sent]_vars

\* min(requested max_out_len, context_window - estimated input tokens - 100)
\* for the call i, once its context window and its input are settled.
OutputCeiling(i) ==
    Min(max_out_len, fr[i].context_window - get_token_len(fr[i].input) - PromptBuffer)

\* C8: every request carries max_tokens equal to the output ceiling, which is
\* positive; a call whose ceiling is not positive returns the empty string
\* without a wait, a credential selection or a request.
C8_RequestsCarryCeiling ==
    \A i \in Tasks :
        /\ fr[i].sent > 0 =>
               /\ fr[i].request.max_tokens = OutputCeiling(i)
               /\ OutputCeiling(i) > 0
        /\ (fr[i].pc \notin {"queued", "cancelled"} /\ OutputCeiling(i) <= 0) =>
               /\ fr[i].ret = StrRet(<<>>)
               /\ fr[i].waits = 0
               /\ fr[i].sent = 0
               /\ fr[i].key = ""

\* C9: for a budget >= 1 and a text whose estimate is over the budget,
\* bin_trim returns a non-empty fragment whose estimate is within the budget.
C9_TrimFitsAndNonEmpty ==
    (/\ call.pc = "returned"
     /\ call.num_token >= 1
     /\ get_token_len(call.prompt) > call.num_token) =>
        /\ get_token_len(call.out) <= call.num_token
        /\ Len(call.out) > 0

\* C10: bin_trim returns a text whose estimate is within the budget unchanged,
\* in every truncation mode.
C10_WithinBudgetUnchanged ==
    (call.pc = "returned" /\ get_token_len(call.prompt) <= call.num_token) =>
        call.out = call.prompt

\* C10 witness: a text of four word units whose estimate equals the budget
\* has been returned as it was.
C10_Witness ==
    /\ call.pc = "returned"
    /\ Len(Split(call.prompt)) >= 4
    /\ get_token_len(call.prompt) = call.num_token
    /\ call.out = call.prompt

\* C11: in a run of one call, whose selections come one after another, with
\* no key invalid, every selection reads the position after the one before
\* it, cyclically, so that any Len(keys) consecutive selections read every
\* position of the key list once; the key returned is the one at the position
\* read.
C11_RoundRobinInOrder ==
    \A i \in Tasks :
        (Len(inputs) = 1 /\ invalid_keys = {}) =>
            LET ps == fr[i].picks
                n == Len(keys)
            IN  /\ \A k \in 1..(Len(ps) - 1) : ps[k + 1] = (ps[k] + 1) % n
                /\ \A s \in 1..(Len(ps) - n + 1) :
                       {ps[s + j] : j \in 0..(n - 1)} = 0..(n - 1)
                /\ ps # <<>> => fr[i].key = keys[ps[Len(ps)] + 1]

\* C11 witness: three selections on three keys, begun with the cursor on the
\* second key, have read the third, the first and the second key.
C11_Witness ==
    /\ Len(inputs) = 1
    /\ invalid_keys = {}
    /\ keys = <<"k1", "k2", "k3">>
    /\ fr[1].picks = <<2, 0, 1>>
    /\ fr[1].key = "k2"

\* The positions of the key list whose key is not in inv.
ValidPositions(inv) == {j \in 1..Len(keys) : keys[j] \notin inv}

\* C12: a credential selection that began when all positions of the key list
\* but one held an invalid key returns the key of that one position.
C12_OneValidKeySelected ==
    [][\A i \in Tasks :
          (/\ fr[i].pc = "key_read"
           /\ fr'[i].pc \notin {"key_read", "done"}
           /\ Cardinality(ValidPositions(fr[i].known_invalid)) = 1) =>
              \E j \in ValidPositions(fr[i].known_invalid) :
                  fr'[i].key = keys[j]]_vars

\* The response names an exhausted quota by its error code.
QuotaError(resp) == resp.kind = "error" /\ resp.code = "insufficient_quota"

\* C13: with one configured key and a retry count >= 1, the step that
\* receives a quota error for the first request of a call marks the key
\* invalid and goes on to the next attempt; from there the call sends nothing
\* more and its next two steps raise 'All keys have insufficient quota'.
C13_SingleKeyQuotaRaises ==
    [][\A i \in Tasks :
          (cls = "OpenAI" /\ Len(keys) = 1 /\ retry >= 1 /\ fr'[i] # fr[i]) =>
              /\ (/\ fr[i].sent = 0
                  /\ fr'[i].sent = 1
                  /\ QuotaError(fr'[i].response)) =>
                     /\ invalid_keys' = {keys[1]}
                     /\ fr'[i].pc = "loop"
                     /\ fr'[i].max_num_retries = 0
              /\ (/\ fr[i].sent = 1
                  /\ fr[i].max_num_retries = 0
                  /\ keys[1] \in invalid_keys
                  /\ fr[i].pc \in {"loop", "check"}) =>
                     /\ fr'[i].sent = 1
                     /\ fr[i].pc = "loop" => fr'[i].pc = "check"
                     /\ fr[i].pc = "check" =>
                            /\ fr'[i].pc = "done"
                            /\ fr'[i].ret = Raise(AllKeysError, 0)]_vars

\* C13 witness: a call on a single key has ended with 'All keys have
\* insufficient quota' after one request, with retries left.
C13_Witness ==
    /\ cls = "OpenAI"
    /\ Len(keys) = 1
    /\ retry >= 1
    /\ Len(inputs) = 1
    /\ fr[1].pc = "done"
    /\ fr[1].sent = 1
    /\ fr[1].max_num_retries = 0
    /\ fr[1].picks = <<0>>
    /\ invalid_keys = {keys[1]}
    /\ fr[1].ret = Raise(AllKeysError, 0)

\* C14: generate() of either discipline, returning for an empty batch,
\* returns the empty list and has logged an error; no call of _generate has
\* run, and the cursors and the invalid-key set are as __init__ left them.
C14_EmptyBatchLoggedAndEmpty ==
    (inputs = <<>> /\ gen_pc = "returned") =>
        /\ results = <<>>
        /\ \E k \in 1..Len(gen_log) : gen_log[k].level = "error"
        /\ completed = <<>>
        /\ key_ctr = 0
        /\ org_ctr = 0
        /\ invalid_keys = {}

\* The call i has built its message list.
Built(i) == fr[i].pc \notin {"queued", "cancelled"}

\* The budget _generate gives bin_trim.
TrimBudget == max_seq_len - PromptBuffer - max_out_len

\* C15 as stated: the message list of a flat-string input is one turn of role
\* 'user' whose content is the original input string, in every truncation
\* mode.
C15_ContentIsOriginal ==
    \A i \in Tasks :
        Built(i) => fr[i].messages = <<[role |-> "user", content |-> fr[i].arg]>>

\* C15 amended: the message list of a flat-string input is one turn of role
\* 'user' whose content is the input after the truncation step; it is the
\* original string when the mode is 'none' or the estimate of the input is
\* within the budget given to bin_trim.
C15_ContentIsTrimmedInput ==
    \A i \in Tasks :
        Built(i) =>
            /\ Len(fr[i].messages) = 1
            /\ fr[i].messages[1].role = "user"
            /\ fr[i].messages[1].content \in
                   (IF mode = "none" THEN {fr[i].arg}
                    ELSE bin_trim(fr[i].arg, TrimBudget, mode))
            /\ (mode = "none" \/ get_token_len(fr[i].arg) <= TrimBudget) =>
                   fr[i].messages[1].content = fr[i].arg

\* C15 witness: a call in a truncating mode has built its single 'user' turn
\* from a shortened input.
C15_Witness ==
    /\ mode \in TrimModes
    /\ Len(inputs) = 1
    /\ Built(1)
    /\ get_token_len(fr[1].arg) > TrimBudget
    /\ fr[1].messages = <<[role |-> "user", content |-> fr[1].input]>>
    /\ Len(fr[1].input) < Len(fr[1].arg)
    /\ Len(fr[1].input) > 0

\* The call i is inside the with block of the key selection: it has made
\* the all-invalid test and has not yet read its key.
InSelection(i) ==
    fr[i].pc \in {"inc_load", "inc_store", "wrap", "wrap_store", "test", "key_read"}

\* The call i is inside the with block of the organization cursor: it has
\* loaded the cursor and has not yet left the block.
InOrgSection(i) == fr[i].pc \in {"org_store", "org_wrap"}

\* C16: no two workers are inside the key-selection section at once, nor
\* inside the organization-cursor section at once.
C16_SelectionIsExclusive ==
    \A i, j \in Tasks :
        i # j =>
            /\ ~(InSelection(i) /\ InSelection(j))
            /\ ~(InOrgSection(i) /\ InOrgSection(j))

\* C17: a worker about to index keys[key_ctr] or orgs[org_ctr] finds the
\* cursor within the list.
C17_CursorsInRange ==
    \A i \in Tasks :
        /\ fr[i].pc \in {"test", "key_read"} => InRange(key_ctr, keys)
        /\ fr[i].pc = "org_header" => InRange(org_ctr, orgs)

\* No key is listed twice.
KeysDistinct == Cardinality(KeySet(keys)) = Len(keys)

\* The call i is in the key-scanning loop of an attempt.
Scanning(i) == i \in Tasks /\ InSelection(i)

\* C18: a worker that is in the key-scanning loop leaves it in the end, with
\* a key or with an exception, whatever the other workers do (stated for key
\* lists without a repeated key).
C18_ScanTerminates ==
    \A i \in TaskIds : (KeysDistinct /\ Scanning(i)) ~> ~Scanning(i)

\* C19: the organization block of an attempt leaves the cursor one position,
\* modulo len(orgs), after the position it found it at; with no organization
\* configured the cursor does not move and no request names an organization.
C19_OrgCursorAdvancesByOne ==
    [][\A i \in Tasks :
          /\ (fr[i].pc = "org_wrap" /\ fr'[i].pc = "org_header") =>
                 org_ctr' = (fr[i].ctr + 1) % Len(orgs)
          /\ Len(orgs) = 0 =>
                 /\ org_ctr' = org_ctr
                 /\ fr'[i].request.org = ""]_vars

\* The call i is in an attempt before its key is read, after its key is
\* read, or anywhere between the wait() and the request of an attempt.
BeforeKey(i) ==
    fr[i].pc \in {"check", "inc_load", "inc_store", "wrap", "wrap_store", "test",
                  "key_read"}

AfterKey(i) ==
    fr[i].pc \in {"org_load", "org_store", "org_wrap", "org_header", "send"}

InAttempt(i) == BeforeKey(i) \/ AfterKey(i) \/ fr[i].pc = "create"

\* C20: between the attempts a call has waited as often as it has sent a
\* request; inside an attempt it has waited once more, and that wait came
\* before the credential selection of the attempt, so that no request goes
\* out without the wait() of its own attempt.
C20_OneWaitPerAttempt ==
    \A i \in Tasks :
        /\ fr[i].pc = "loop" => fr[i].waits = fr[i].sent
        /\ InAttempt(i) => fr[i].waits = fr[i].sent + 1
        /\ BeforeKey(i) => Len(fr[i].picks) = fr[i].waits - 1
        /\ AfterKey(i) => Len(fr[i].picks) = fr[i].waits
        /\ fr[i].sent <= fr[i].waits
        /\ fr[i].waits <= fr[i].sent + 1

\* C20 witness: a call is about to send the request of its second attempt,
\* the first having ended on a path that does not count, and has waited
\* twice.
C20_Witness ==
    /\ cls = "OpenAI"
    /\ Len(inputs) = 1
    /\ fr[1].pc = "send"
    /\ fr[1].sent = 1
    /\ fr[1].max_num_retries = 0
    /\ fr[1].waits = 2
    /\ Len(fr[1].picks) = 2

\* requests.post raised ConnectionError, or the body is no JSON.
TransportFailure(resp) == resp.kind \in {"conn_error", "bad_json"}

C22_NoRoomSkipsTruncatorAndRequest ==
    \A i \in Tasks :
        (cls = "OpenAI" /\ mode \in TrimModes /\ TrimBudget <= 0 /\ Built(i)) =>
            /\ fr[i].trims = 0
            /\ fr[i].sent = 0
            /\ fr[i].pc \in {"done", "joined"}
            /\ fr[i].ret = StrRet(<<>>)

\* The estimate of the fragment does not decrease with the unit count.
Monotone(ws, sep, m) ==
    \A k \in 1..(Len(ws) - 1) :
        get_token_len(Fragment(ws, sep, k, m)) <=
            get_token_len(Fragment(ws, sep, k + 1, m))

\* The unit counts whose fragment is within the budget.
FittingCounts(ws, sep, num_token, m) ==
    {k \in 1..Len(ws) : Fits(Fragment(ws, sep, k, m), num_token)}

\* The largest member of a non-empty set of numbers.
Largest(S) == CHOOSE k \in S : \A j \in S : j <= k

\* A call of bin_trim that went through the binary search has returned.
Searched == call.pc = "returned" /\ call.l >= 1

\* C23: in modes front and rear, when the estimate is monotone in the unit
\* count and some unit count fits the budget, the search has ended with
\* 1 <= l < r <= len(words) and r - l <= 2, and the l units bin_trim keeps
\* fit and are at most 2 fewer than the largest fitting unit count.
C23_SearchKeepsNearLargestFit ==
    (/\ Searched
     /\ mode \in {"front", "rear"}
     /\ Monotone(call.words, call.sep, mode)
     /\ FittingCounts(call.words, call.sep, call.num_token, mode) # {}) =>
        LET K == Largest(FittingCounts(call.words, call.sep, call.num_token, mode))
        IN  /\ 1 <= call.l
            /\ call.l < call.r
            /\ call.r <= Len(call.words)
            /\ call.r - call.l <= 2
            /\ call.l <= K
            /\ K - call.l <= 2
            /\ call.out = Fragment(call.words, call.sep, call.l, mode)

\* C23 witness: a text of five units in mode front whose search has ended
\* one unit below the largest fitting count.
C23_Witness ==
    /\ Searched
    /\ mode = "front"
    /\ Len(call.words) = 5
    /\ Monotone(call.words, call.sep, mode)
    /\ FittingCounts(call.words, call.sep, call.num_token, mode) # {}
    /\ Largest(FittingCounts(call.words, call.sep, call.num_token, mode)) = call.l + 1

\* s is the text t from some position to its end.
IsSuffix(s, t) ==
    /\ Len(s) <= Len(t)
    /\ s = SubSeq(t, Len(t) - Len(s) + 1, Len(t))

\* s is the text t up to some position.
IsPrefix(s, t) ==
    /\ Len(s) <= Len(t)
    /\ s = SubSeq(t, 1, Len(s))

TerminalError(i) ==
    /\ fr[i].ret.kind = "exc"
    /\ fr[i].ret.exc \in {AllKeysError, RetryError}

\* C25: once the _generate call of some input has raised a terminal error,
\* OpenAI.generate() does not return: it ends by raising, and the error it
\* raises is the one of the first input, in input order, whose call failed
\* (all inputs before it have their own results in the list, which is never
\* returned).  A list generate() returns has one result per input and none
\* of them stands for a failed call.
C25_TerminalErrorReachesCaller ==
    cls \in Classes =>
        /\ (\E i \in Tasks : TerminalError(i)) => gen_pc # "returned"
        /\ gen_pc = "returned" =>
               /\ Len(results) = Len(inputs)
               /\ \A i \in Tasks : fr[i].ret.kind # "exc" /\ results[i] = fr[i].ret
        /\ gen_pc \in {"raising", "raised"} =>
               /\ Len(results) < Len(inputs)
               /\ fr[Len(results) + 1].ret.kind = "exc"
               /\ gen_exc = fr[Len(results) + 1].ret.exc
               /\ \A j \in 1..Len(results) :
                      fr[j].ret.kind # "exc" /\ results[j] = fr[j].ret
        /\ (gen_pc = "running" /\ (\E i \in Tasks : TerminalError(i))) =>
               Len(results) < Len(inputs)

\* C25 witness: of two inputs the first got its text and the second ran out
\* of retries; generate() has raised the second one's error.
C25_Witness ==
    /\ cls = "OpenAI"
    /\ Len(inputs) = 2
    /\ gen_pc = "raised"
    /\ fr[1].ret.kind = "str"
    /\ Len(results) = 1
    /\ TerminalError(2)
    /\ gen_exc = fr[2].ret.exc

\* The call i was skipped for want of room: '' without any request.
Skipped(i) ==
    /\ Ended(i)
    /\ fr[i].sent = 0
    /\ fr[i].ret = StrRet(<<>>)

\* The input of call i, as truncated, leaves room for the requested
\* max_out_len, which is positive.
RoomForRequested(i) ==
    /\ mode \in TrimModes
    /\ max_out_len > 0
    /\ get_token_len(fr[i].input) <= TrimBudget

\* C26: in a truncating mode, for a requested max_out_len M > 0 and a
\* truncated input whose estimate is at most max_seq_len - 100 - M, the
\* ceiling OpenAI._generate computes is M: the call is not skipped and each
\* of its requests carries max_tokens = M.
C26_CeilingIsRequestedLength ==
    \A i \in Tasks :
        (cls = "OpenAI" /\ Built(i) /\ RoomForRequested(i)) =>
            /\ fr[i].context_window = max_seq_len
            /\ fr[i].max_out_len = max_out_len
            /\ ~Skipped(i)
            /\ fr[i].sent > 0 => fr[i].request.max_tokens = max_out_len

\* C26 witness: an input that was cut to exactly the budget, which is
\* positive, has been sent
\* with the two output tokens asked for.
C26_Witness ==
    /\ cls = "OpenAI"
    /\ Len(inputs) = 1
    /\ RoomForRequested(1)
    /\ max_out_len = 2
    /\ TrimBudget >= 1
    /\ fr[1].input # fr[1].arg
    /\ get_token_len(fr[1].input) = TrimBudget
    /\ fr[1].sent = 1
    /\ fr[1].request.max_tokens = 2

====
